---------------------------- MODULE Spec2Model ----------------------------
(***************************************************************************)
(* A model of slims/step.py: the Step class (construction, to_dict and    *)
(* the sync/async execute dispatch around a user action and a flow_run)   *)
(* and the input/output dictionary builders.                              *)
(*                                                                         *)
(* Python values are modelled as strings, None as the value None below.   *)
(* A dict is a function whose domain is its set of keys; a list is a      *)
(* sequence.  A call that raises is the record [ok |-> FALSE, error].     *)
(***************************************************************************)
EXTENDS Naturals, Sequences, FiniteSets, TLC

VARIABLES
    \* ---- one execution of Step.execute(flow_run) ----
    async,        \* self.async of the executed Step
    secretOk,     \* whether flow_run.check_user_secret() returns (TRUE) or raises
    outcome,      \* what the action does once invoked: "returns", "raises", "hangs"
    V,            \* the value the action returns when it returns
    pc,           \* pc[t]: position of thread t ("caller", "worker") in the code
    handling,     \* handling[t]: the exception thread t is handling / propagating
    actionState,  \* "notcalled", "running", "returned", "raised"
    secretCalls,  \* number of flow_run.check_user_secret() calls so far
    statusCalls,  \* the arguments of flow_run.update_status, in call order
    logCalls,     \* the arguments of flow_run.log, in call order
    result,       \* what execute delivered to its caller
    workerExc,    \* the exception that ended the worker thread, if any
    \* ---- one call of an input builder ----
    call,         \* the last builder call made
    built,        \* what that call produced
    \* ---- Step objects and the list objects they refer to ----
    heap,         \* heap[id]: contents of the list object id
    steps,        \* the Step objects constructed so far
    lastOp        \* the last operation on the Step objects

execVars  == <<async, secretOk, outcome, V, pc, handling, actionState,
               secretCalls, statusCalls, logCalls, result, workerExc>>
buildVars == <<call, built>>
stepVars  == <<heap, steps, lastOp>>
vars      == <<execVars, buildVars, stepVars>>

None == "None"

(***************************************************************************)
(* Step.execute                                                            *)
(***************************************************************************)
DONE   == "DONE"
FAILED == "FAILED"

StepExecutionException == "StepExecutionException"
SecretError == "SecretError"     \* whatever check_user_secret raises
ActionError == "ActionError"     \* whatever the action raises
NoExc == "-"

Values   == {None, "v1", "v2"}
Outcomes == {"returns", "raises", "hangs"}
Threads  == {"caller", "worker"}

Pending       == [kind |-> "pending", val |-> None]
Returned(v)   == [kind |-> "return",  val |-> v]
Raised(e)     == [kind |-> "raise",   val |-> e]

\* traceback.format_exc(): the header line and the line of the exception
\* being handled; never empty.
format_exc(e) == <<"Traceback (most recent call last):", e>>

ExecInit ==
    /\ async \in BOOLEAN
    /\ secretOk \in BOOLEAN
    /\ outcome \in Outcomes
    /\ V \in Values
    /\ pc = [caller |-> "execute", worker |-> "none"]
    /\ handling = [caller |-> NoExc, worker |-> NoExc]
    /\ actionState = "notcalled"
    /\ secretCalls = 0
    /\ statusCalls = <<>>
    /\ logCalls = <<>>
    /\ result = Pending
    /\ workerExc = NoExc

\* A variant that goes on to the dispatch whatever the check does.
execute_check_user_secret_ignored ==
    /\ pc.caller = "execute"
    /\ secretCalls' = secretCalls + 1
    /\ pc' = [pc EXCEPT !.caller = "dispatch"]
    /\ UNCHANGED <<buildVars, stepVars>>
    /\ UNCHANGED <<async, secretOk, outcome, V, handling, actionState,
                   statusCalls, logCalls, result, workerExc>>

\* line 49: flow_run.check_user_secret(); a raise goes to the handler of line 56
execute_check_user_secret ==
    /\ pc.caller = "execute"
    /\ secretCalls' = secretCalls + 1
    /\ IF secretOk
         THEN /\ pc' = [pc EXCEPT !.caller = "dispatch"]
              /\ UNCHANGED handling
         ELSE /\ pc' = [pc EXCEPT !.caller = "except_log"]
              /\ handling' = [handling EXCEPT !.caller = SecretError]
    /\ UNCHANGED <<buildVars, stepVars>>
    /\ UNCHANGED <<async, secretOk, outcome, V, actionState, statusCalls,
                   logCalls, result, workerExc>>

\* lines 62-64: the thread is created with target _execute_inner and started
_execute_async ==
    /\ pc.caller = "dispatch"
    /\ async
    /\ pc' = [caller |-> "async_started", worker |-> "inner"]
    /\ UNCHANGED <<buildVars, stepVars>>
    /\ UNCHANGED <<async, secretOk, outcome, V, handling, actionState,
                   secretCalls, statusCalls, logCalls, result, workerExc>>

\* A variant that joins the thread before returning.
execute_async_return_join ==
    /\ pc.caller = "async_started"
    /\ pc.worker = "dead"
    /\ pc' = [pc EXCEPT !.caller = "done"]
    /\ result' = Returned(None)
    /\ UNCHANGED <<buildVars, stepVars>>
    /\ UNCHANGED <<async, secretOk, outcome, V, handling, actionState,
                   secretCalls, statusCalls, logCalls, workerExc>>

\* line 52: return self._execute_async(flow_run), which returned no value
execute_async_return ==
    /\ pc.caller = "async_started"
    /\ pc' = [pc EXCEPT !.caller = "done"]
    /\ result' = Returned(None)
    /\ UNCHANGED <<buildVars, stepVars>>
    /\ UNCHANGED <<async, secretOk, outcome, V, handling, actionState,
                   secretCalls, statusCalls, logCalls, workerExc>>

\* lines 53-55: the caller thread enters _execute_inner
execute_sync ==
    /\ pc.caller = "dispatch"
    /\ ~async
    /\ pc' = [pc EXCEPT !.caller = "inner"]
    /\ UNCHANGED <<buildVars, stepVars>>
    /\ UNCHANGED <<async, secretOk, outcome, V, handling, actionState,
                   secretCalls, statusCalls, logCalls, result, workerExc>>

\* line 68: self.action(flow_run) is invoked by thread t
inner_call_action(t) ==
    /\ pc[t] = "inner"
    /\ pc' = [pc EXCEPT ![t] = "action"]
    /\ actionState' = "running"
    /\ UNCHANGED <<buildVars, stepVars>>
    /\ UNCHANGED <<async, secretOk, outcome, V, handling, secretCalls,
                   statusCalls, logCalls, result, workerExc>>

\* line 68: the action returns V
action_returns(t) ==
    /\ pc[t] = "action"
    /\ outcome = "returns"
    /\ pc' = [pc EXCEPT ![t] = "inner_done"]
    /\ actionState' = "returned"
    /\ UNCHANGED <<buildVars, stepVars>>
    /\ UNCHANGED <<async, secretOk, outcome, V, handling, secretCalls,
                   statusCalls, logCalls, result, workerExc>>

\* line 68: the action raises; control goes to the handler of line 72
action_raises(t) ==
    /\ pc[t] = "action"
    /\ outcome = "raises"
    /\ pc' = [pc EXCEPT ![t] = "inner_except_log"]
    /\ handling' = [handling EXCEPT ![t] = ActionError]
    /\ actionState' = "raised"
    /\ UNCHANGED <<buildVars, stepVars>>
    /\ UNCHANGED <<async, secretOk, outcome, V, secretCalls, statusCalls,
                   logCalls, result, workerExc>>

\* A variant that drops the action's value.
inner_done_drop_value(t) ==
    /\ pc[t] = "inner_done"
    /\ statusCalls' = Append(statusCalls, DONE)
    /\ IF t = "caller"
         THEN /\ pc' = [pc EXCEPT ![t] = "done"]
              /\ result' = Returned(None)
         ELSE /\ pc' = [pc EXCEPT ![t] = "dead"]
              /\ UNCHANGED result
    /\ UNCHANGED <<buildVars, stepVars>>
    /\ UNCHANGED <<async, secretOk, outcome, V, handling, actionState,
                   secretCalls, logCalls, workerExc>>

\* lines 69-71: update_status(DONE); return value.  In the caller thread the
\* value is what execute returns (line 55); in the worker the thread ends.
inner_done(t) ==
    /\ pc[t] = "inner_done"
    /\ statusCalls' = Append(statusCalls, DONE)
    /\ IF t = "caller"
         THEN /\ pc' = [pc EXCEPT ![t] = "done"]
              /\ result' = Returned(V)
         ELSE /\ pc' = [pc EXCEPT ![t] = "dead"]
              /\ UNCHANGED result
    /\ UNCHANGED <<buildVars, stepVars>>
    /\ UNCHANGED <<async, secretOk, outcome, V, handling, actionState,
                   secretCalls, logCalls, workerExc>>

\* A variant that logs an empty text.
inner_except_log_empty(t) ==
    /\ pc[t] = "inner_except_log"
    /\ logCalls' = Append(logCalls, <<>>)
    /\ pc' = [pc EXCEPT ![t] = "inner_except_status"]
    /\ UNCHANGED <<buildVars, stepVars>>
    /\ UNCHANGED <<async, secretOk, outcome, V, handling, actionState,
                   secretCalls, statusCalls, result, workerExc>>

\* line 73: flow_run.log(traceback.format_exc())
inner_except_log(t) ==
    /\ pc[t] = "inner_except_log"
    /\ logCalls' = Append(logCalls, format_exc(handling[t]))
    /\ pc' = [pc EXCEPT ![t] = "inner_except_status"]
    /\ UNCHANGED <<buildVars, stepVars>>
    /\ UNCHANGED <<async, secretOk, outcome, V, handling, actionState,
                   secretCalls, statusCalls, result, workerExc>>

\* line 74: flow_run.update_status(Status.FAILED)
inner_except_status(t) ==
    /\ pc[t] = "inner_except_status"
    /\ statusCalls' = Append(statusCalls, FAILED)
    /\ pc' = [pc EXCEPT ![t] = "inner_raise"]
    /\ UNCHANGED <<buildVars, stepVars>>
    /\ UNCHANGED <<async, secretOk, outcome, V, handling, actionState,
                   secretCalls, logCalls, result, workerExc>>

\* A variant that ends _execute_inner without raising.
inner_raise_swallowed(t) ==
    /\ pc[t] = "inner_raise"
    /\ IF t = "caller"
         THEN /\ pc' = [pc EXCEPT ![t] = "done"]
              /\ result' = Returned(None)
         ELSE /\ pc' = [pc EXCEPT ![t] = "dead"]
              /\ UNCHANGED result
    /\ handling' = [handling EXCEPT ![t] = NoExc]
    /\ UNCHANGED <<buildVars, stepVars>>
    /\ UNCHANGED <<async, secretOk, outcome, V, actionState, secretCalls,
                   statusCalls, logCalls, workerExc>>

\* line 76: raise StepExecutionException.  In the caller thread the raise is
\* inside the try of execute and is caught at line 56 (StepExecutionException
\* is an Exception); in the worker nothing catches it and the thread ends.
inner_raise(t) ==
    /\ pc[t] = "inner_raise"
    /\ IF t = "caller"
         THEN /\ pc' = [pc EXCEPT ![t] = "except_log"]
              /\ handling' = [handling EXCEPT ![t] = StepExecutionException]
              /\ UNCHANGED workerExc
         ELSE /\ pc' = [pc EXCEPT ![t] = "dead"]
              /\ handling' = [handling EXCEPT ![t] = NoExc]
              /\ workerExc' = StepExecutionException
    /\ UNCHANGED <<buildVars, stepVars>>
    /\ UNCHANGED <<async, secretOk, outcome, V, actionState, secretCalls,
                   statusCalls, logCalls, result>>

\* line 57: flow_run.log(traceback.format_exc())
execute_except_log ==
    /\ pc.caller = "except_log"
    /\ logCalls' = Append(logCalls, format_exc(handling.caller))
    /\ pc' = [pc EXCEPT !.caller = "except_status"]
    /\ UNCHANGED <<buildVars, stepVars>>
    /\ UNCHANGED <<async, secretOk, outcome, V, handling, actionState,
                   secretCalls, statusCalls, result, workerExc>>

\* line 58: flow_run.update_status(Status.FAILED)
execute_except_status ==
    /\ pc.caller = "except_status"
    /\ statusCalls' = Append(statusCalls, FAILED)
    /\ pc' = [pc EXCEPT !.caller = "except_raise"]
    /\ UNCHANGED <<buildVars, stepVars>>
    /\ UNCHANGED <<async, secretOk, outcome, V, handling, actionState,
                   secretCalls, logCalls, result, workerExc>>

\* line 60: raise StepExecutionException, out of execute
execute_raise ==
    /\ pc.caller = "except_raise"
    /\ pc' = [pc EXCEPT !.caller = "done"]
    /\ handling' = [handling EXCEPT !.caller = NoExc]
    /\ result' = Raised(StepExecutionException)
    /\ UNCHANGED <<buildVars, stepVars>>
    /\ UNCHANGED <<async, secretOk, outcome, V, actionState, secretCalls,
                   statusCalls, logCalls, workerExc>>

\* Step.execute in the calling thread (lines 47-60)
execute ==
    \/ execute_check_user_secret
    \/ _execute_async
    \/ execute_async_return
    \/ execute_sync
    \/ execute_except_log
    \/ execute_except_status
    \/ execute_raise

\* Step._execute_inner in thread t (lines 66-76)
_execute_inner(t) ==
    \/ inner_call_action(t)
    \/ action_returns(t)
    \/ action_raises(t)
    \/ inner_done(t)
    \/ inner_except_log(t)
    \/ inner_except_status(t)
    \/ inner_raise(t)

ExecNext ==
    \/ execute
    \/ \E t \in Threads : _execute_inner(t)


(***************************************************************************)
(* Python's call protocol, as far as the builders use it                   *)
(***************************************************************************)
Raise(e)  == [ok |-> FALSE, error |-> e]
Return(v) == [ok |-> TRUE, value |-> v]

TypeError  == "TypeError"
IndexError == "IndexError"

EmptyDict == [k \in {} |-> None]

\* dict.update: d with every key of other set to other's value
update(d, other) ==
    [k \in DOMAIN d \cup DOMAIN other |->
        IF k \in DOMAIN other THEN other[k] ELSE d[k]]

\* Binding of the positional arguments args and the keyword arguments kw to
\* the parameters params (with the defaults given) of a function declared
\* "def f(params..., **kwargs)".  TypeError when there are more positional
\* arguments than parameters, when a keyword names a parameter that a
\* positional argument already filled, or when a parameter without default
\* gets no value.  Keywords that name no parameter go to kwargs.
Bind(params, defaults, args, kw) ==
    LET n       == Len(params)
        names   == {params[i] : i \in 1..n}
        byPos   == {params[i] : i \in (1..n) \cap (1..Len(args))}
        pos(p)  == CHOOSE i \in 1..n : params[i] = p
    IN  IF Len(args) > n THEN Raise(TypeError)
        ELSE IF (DOMAIN kw) \cap byPos # {} THEN Raise(TypeError)
        ELSE IF \E p \in names \ byPos :
                    p \notin DOMAIN kw /\ p \notin DOMAIN defaults
             THEN Raise(TypeError)
        ELSE [ok     |-> TRUE,
              bound  |-> [p \in names |->
                            IF p \in byPos THEN args[pos(p)]
                            ELSE IF p \in DOMAIN kw THEN kw[p]
                            ELSE defaults[p]],
              kwargs |-> [k \in (DOMAIN kw) \ names |-> kw[k]]]

\* f(*kwargs): iterating a dict yields its keys, which become further
\* positional arguments (in the dict's order; only their number matters to
\* the binding when the callee has no parameter left for them).
RECURSIVE KeysAsArgs(_)
KeysAsArgs(d) ==
    IF DOMAIN d = {} THEN <<>>
    ELSE LET k == CHOOSE k \in DOMAIN d : TRUE
         IN  <<k>> \o KeysAsArgs([j \in (DOMAIN d) \ {k} |-> d[j]])

(***************************************************************************)
(* Simple scalar inputs                                                    *)
(***************************************************************************)
\* A variant that leaves the extra keys out.
_simple_input_no_update(args, kw) ==
    LET b == Bind(<<"name", "label", "type">>, EmptyDict, args, kw)
    IN  IF ~b.ok THEN Raise(b.error)
        ELSE Return([name  |-> b.bound["name"],
                     label |-> b.bound["label"],
                     type  |-> b.bound["type"]])

\* lines 83-86
_simple_input(args, kw) ==
    LET b == Bind(<<"name", "label", "type">>, EmptyDict, args, kw)
    IN  IF ~b.ok THEN Raise(b.error)
        ELSE Return(update([name  |-> b.bound["name"],
                            label |-> b.bound["label"],
                            type  |-> b.bound["type"]],
                           b.kwargs))

\* def X_input(name, label, **kwargs): return _simple_input(name, label, tag, **kwargs)
SimpleBuilder(tag, args, kw) ==
    LET b == Bind(<<"name", "label">>, EmptyDict, args, kw)
    IN  IF ~b.ok THEN Raise(b.error)
        ELSE _simple_input(<<b.bound["name"], b.bound["label"], tag>>, b.kwargs)

text_input(args, kw)      == SimpleBuilder("STRING", args, kw)
date_input(args, kw)      == SimpleBuilder("DATE", args, kw)
date_time_input(args, kw) == SimpleBuilder("DATETIME", args, kw)
time_input(args, kw)      == SimpleBuilder("TIME", args, kw)
boolean_input(args, kw)   == SimpleBuilder("BOOLEAN", args, kw)
rich_text_input(args, kw) == SimpleBuilder("TEXT", args, kw)
integer_input(args, kw)   == SimpleBuilder("INTEGER", args, kw)
float_input(args, kw)     == SimpleBuilder("FLOAT", args, kw)
password_input(args, kw)  == SimpleBuilder("PASSWORD", args, kw)
file_input(args, kw)      == SimpleBuilder("FILE", args, kw)

SimpleBuilders ==
    {"text_input", "date_input", "date_time_input", "time_input",
     "boolean_input", "rich_text_input", "integer_input", "float_input",
     "password_input", "file_input"}

\* The type tag the spec gives for each simple builder
FixedTag(fn) ==
    CASE fn = "text_input"      -> "STRING"
      [] fn = "date_input"      -> "DATE"
      [] fn = "date_time_input" -> "DATETIME"
      [] fn = "time_input"      -> "TIME"
      [] fn = "boolean_input"   -> "BOOLEAN"
      [] fn = "rich_text_input" -> "TEXT"
      [] fn = "integer_input"   -> "INTEGER"
      [] fn = "float_input"     -> "FLOAT"
      [] fn = "password_input"  -> "PASSWORD"
      [] fn = "file_input"      -> "FILE"

CallSimple(fn, args, kw) ==
    CASE fn = "text_input"      -> text_input(args, kw)
      [] fn = "date_input"      -> date_input(args, kw)
      [] fn = "date_time_input" -> date_time_input(args, kw)
      [] fn = "time_input"      -> time_input(args, kw)
      [] fn = "boolean_input"   -> boolean_input(args, kw)
      [] fn = "rich_text_input" -> rich_text_input(args, kw)
      [] fn = "integer_input"   -> integer_input(args, kw)
      [] fn = "float_input"     -> float_input(args, kw)
      [] fn = "password_input"  -> password_input(args, kw)
      [] fn = "file_input"      -> file_input(args, kw)

(***************************************************************************)
(* Field-list choice inputs.  The parameter fieldtype is a list or None:   *)
(* NoneList is None there, SomeList(s) the list s.                         *)
(***************************************************************************)
NoneList    == [isNone |-> TRUE,  items |-> <<>>]
SomeList(s) == [isNone |-> FALSE, items |-> s]

\* A variant of the loop that stops where fieldtype ends.
RECURSIVE entries_loop_truncating(_, _, _, _)
entries_loop_truncating(fieldelements, fieldtype, i, entries) ==
    IF i >= Len(fieldelements) THEN Return(entries)
    ELSE IF ~fieldtype.isNone /\ i >= Len(fieldtype.items) THEN Return(entries)
    ELSE entries_loop_truncating(fieldelements, fieldtype, i + 1,
            Append(entries,
                   [type  |-> IF fieldtype.isNone THEN None
                              ELSE fieldtype.items[i + 1],
                    field |-> fieldelements[i + 1]]))

\* lines 138-148: the loop over fieldelements with the 0-based index i;
\* fieldtype[i] raises IndexError when i is not an index of fieldtype.
\* (Sequences are 1-based, so Python's x[i] is x[i + 1] here.)
RECURSIVE entries_loop(_, _, _, _)
entries_loop(fieldelements, fieldtype, i, entries) ==
    IF i >= Len(fieldelements) THEN Return(entries)
    ELSE IF ~fieldtype.isNone /\ i >= Len(fieldtype.items) THEN Raise(IndexError)
    ELSE entries_loop(fieldelements, fieldtype, i + 1,
            Append(entries,
                   [type  |-> IF fieldtype.isNone THEN None
                              ELSE fieldtype.items[i + 1],
                    field |-> fieldelements[i + 1]]))

\* lines 137-157
_choice_with_field_list_input(args, kw) ==
    LET b == Bind(<<"name", "label", "datatype", "fieldelements", "fieldtype">>,
                  [fieldtype |-> NoneList], args, kw)
    IN  IF ~b.ok THEN Raise(b.error)
        ELSE LET e == entries_loop(b.bound["fieldelements"],
                                   b.bound["fieldtype"], 0, <<>>)
             IN  IF ~e.ok THEN Raise(e.error)
                 ELSE Return(update([name      |-> b.bound["name"],
                                     label     |-> b.bound["label"],
                                     type      |-> b.bound["datatype"],
                                     fieldList |-> [entries |-> e.value]],
                                    b.kwargs))

\* def f(name, label, fieldelements, fieldtype=None, **kwargs):
\*     return _choice_with_field_list_input(name, label, tag, fieldelements, fieldtype, **kwargs)
FieldListBuilder(tag, args, kw) ==
    LET b == Bind(<<"name", "label", "fieldelements", "fieldtype">>,
                  [fieldtype |-> NoneList], args, kw)
    IN  IF ~b.ok THEN Raise(b.error)
        ELSE _choice_with_field_list_input(
                 <<b.bound["name"], b.bound["label"], tag,
                   b.bound["fieldelements"], b.bound["fieldtype"]>>,
                 b.kwargs)

\* lines 103-118
single_choice_with_field_list_input(args, kw) ==
    FieldListBuilder("SINGLE_CHOICE", args, kw)

\* lines 121-134
multiple_choice_with_field_list_input(args, kw) ==
    FieldListBuilder("MULTIPLE_CHOICE", args, kw)

(***************************************************************************)
(* Value-map choice inputs                                                 *)
(***************************************************************************)
\* lines 209-230
_choice_with_value_map_input(args, kw) ==
    LET b == Bind(<<"name", "label", "datatype", "table", "filtered",
                    "reference", "fixed_choice_customer_field">>,
                  EmptyDict, args, kw)
    IN  IF ~b.ok THEN Raise(b.error)
        ELSE Return(update(
                 [name     |-> b.bound["name"],
                  label    |-> b.bound["label"],
                  type     |-> b.bound["datatype"],
                  valueMap |->
                     [filter    |-> b.bound["filtered"],
                      reference |-> b.bound["reference"],
                      table     |-> b.bound["table"],
                      fixedChoiceCustomField |->
                          b.bound["fixed_choice_customer_field"]]],
                 b.kwargs))

\* def f(name, label, table=None, filtered=None, reference=None,
\*       fixed_choice_customer_field=None, **kwargs):
\*     return _choice_with_value_map_input(name, label, tag, table, filtered,
\*                                         reference, fixed_choice_customer_field, *kwargs)
\* The extra keywords are passed on with one star: their keys become
\* positional arguments and no keyword argument is passed.
ValueMapBuilder(tag, args, kw) ==
    LET b == Bind(<<"name", "label", "table", "filtered", "reference",
                    "fixed_choice_customer_field">>,
                  [table |-> None, filtered |-> None, reference |-> None,
                   fixed_choice_customer_field |-> None], args, kw)
    IN  IF ~b.ok THEN Raise(b.error)
        ELSE _choice_with_value_map_input(
                 <<b.bound["name"], b.bound["label"], tag, b.bound["table"],
                   b.bound["filtered"], b.bound["reference"],
                   b.bound["fixed_choice_customer_field"]>>
                 \o KeysAsArgs(b.kwargs),
                 EmptyDict)

\* lines 160-182
single_choice_with_value_map_input(args, kw) ==
    ValueMapBuilder("SINGLE_CHOICE", args, kw)

\* lines 185-206
multiple_choice_with_value_map_input(args, kw) ==
    ValueMapBuilder("MULTIPLE_CHOICE", args, kw)

ChoiceTag(fn) ==
    IF fn \in {"single_choice_with_field_list_input",
               "single_choice_with_value_map_input"}
    THEN "SINGLE_CHOICE" ELSE "MULTIPLE_CHOICE"

(***************************************************************************)
(* Outputs                                                                 *)
(***************************************************************************)
\* lines 378-383
file_output == [name |-> "file", type |-> "FILE"]

(***************************************************************************)
(* Builder calls: the inputs are drawn from the sets below                  *)
(***************************************************************************)
MaxLen == 2      \* longest fieldelements / fieldtype list tried

Names         == {"n1"}
Labels        == {"L1"}
KwValues      == {"k1", "k2"}
FieldElements == {"a", "b"}
FieldTypes    == {"T1", "T2"}

SimpleExtraKeys    == {"defaultValue", "name", "label", "type"}
FieldListExtraKeys == {"defaultValue", "type"}
ValueMapKeys       == {"table", "filtered", "reference",
                       "fixed_choice_customer_field", "defaultValue"}

FieldListBuilders == {"single_choice_with_field_list_input",
                      "multiple_choice_with_field_list_input"}
ValueMapBuilders  == {"single_choice_with_value_map_input",
                      "multiple_choice_with_value_map_input"}

KwDicts(keys)  == UNION {[S -> KwValues] : S \in SUBSET keys}
SeqsUpTo(S, n) == UNION {[1..k -> S] : k \in 0..n}

NoCall == [fn |-> "none", args |-> <<>>, kw |-> EmptyDict]

BuildInit ==
    /\ call = NoCall
    /\ built = Raise("none")

CallSimpleInput ==
    \E fn \in SimpleBuilders, n \in Names, l \in Labels,
       kw \in KwDicts(SimpleExtraKeys) :
        /\ call = NoCall
        /\ call' = [fn |-> fn, args |-> <<n, l>>, kw |-> kw]
        /\ built' = CallSimple(fn, <<n, l>>, kw)
        /\ UNCHANGED <<execVars, stepVars>>

\* fieldtype is left out, passed as the fourth positional argument, or
\* passed by keyword.
CallFieldListInput ==
    \E fn \in FieldListBuilders, n \in Names, l \in Labels,
       fe \in SeqsUpTo(FieldElements, MaxLen),
       ft \in {NoneList} \cup {SomeList(q) : q \in SeqsUpTo(FieldTypes, MaxLen)},
       how \in {"omitted", "positional", "keyword"},
       extra \in KwDicts(FieldListExtraKeys) :
        /\ call = NoCall
        /\ how = "omitted" => ft = NoneList
        /\ UNCHANGED <<execVars, stepVars>>
        /\ LET args == IF how = "positional" THEN <<n, l, fe, ft>>
                       ELSE <<n, l, fe>>
               kw   == IF how = "keyword"
                       THEN update(extra, [fieldtype |-> ft]) ELSE extra
           IN  /\ call' = [fn |-> fn, args |-> args, kw |-> kw,
                           fieldelements |-> fe, fieldtype |-> ft,
                           extra |-> extra]
               /\ built' = IF fn = "single_choice_with_field_list_input"
                           THEN single_choice_with_field_list_input(args, kw)
                           ELSE multiple_choice_with_field_list_input(args, kw)

CallValueMapInput ==
    \E fn \in ValueMapBuilders, n \in Names, l \in Labels,
       kw \in KwDicts(ValueMapKeys) :
        /\ call = NoCall
        /\ UNCHANGED <<execVars, stepVars>>
        /\ call' = [fn |-> fn, args |-> <<n, l>>, kw |-> kw]
        /\ built' = IF fn = "single_choice_with_value_map_input"
                    THEN single_choice_with_value_map_input(<<n, l>>, kw)
                    ELSE multiple_choice_with_value_map_input(<<n, l>>, kw)

BuildNext ==
    \/ CallSimpleInput
    \/ CallFieldListInput
    \/ CallValueMapInput

(***************************************************************************)
(* Step objects.  A list is an object on the heap; a Step holds the ids    *)
(* of its input and output lists.  The two default lists of line 23 are    *)
(* created once, when the def statement is executed.                       *)
(***************************************************************************)
MaxSteps   == 2     \* Steps constructed
MaxListLen == 2     \* longest list a mutation builds

default_input  == 1   \* the list object of the default input=[]
default_output == 2   \* the list object of the default output=[]

InputParam  == text_input(<<"x", "X">>, EmptyDict).value
OutputParam == file_output

RouteId == "route-1"

StepInit ==
    /\ heap = [id \in {default_input, default_output} |-> <<>>]
    /\ steps = <<>>
    /\ lastOp = [op |-> "none", step |-> 0, field |-> "none"]

\* The id of a list object that does not exist yet
NewId(h) == CHOOSE id \in 1..(Cardinality(DOMAIN h) + 1) : id \notin DOMAIN h

\* lines 23-29: Step(name, action, async, ...) where the caller passes a new
\* empty list for input (output) when inGiven (outGiven), and omits the
\* argument otherwise.  self.input = input stores the reference.
Step__init__ ==
    \E a \in BOOLEAN, inGiven \in BOOLEAN, outGiven \in BOOLEAN :
        /\ Len(steps) < MaxSteps
        /\ LET h1    == IF inGiven THEN heap @@ (NewId(heap) :> <<>>) ELSE heap
               inId  == IF inGiven THEN NewId(heap) ELSE default_input
               h2    == IF outGiven THEN h1 @@ (NewId(h1) :> <<>>) ELSE h1
               outId == IF outGiven THEN NewId(h1) ELSE default_output
           IN  /\ heap' = h2
               /\ steps' = Append(steps,
                     [name |-> "step", async |-> a, hidden |-> FALSE,
                      input |-> inId, output |-> outId])
        /\ lastOp' = [op |-> "init", step |-> Len(steps) + 1, field |-> "none"]
        /\ UNCHANGED <<execVars, buildVars>>

\* lines 31-45
to_dict(i, route_id) ==
    [hidden  |-> steps[i].hidden,
     name    |-> steps[i].name,
     input   |-> [parameters |-> heap[steps[i].input]],
     process |-> [asynchronous |-> steps[i].async, route |-> route_id],
     output  |-> [parameters |-> heap[steps[i].output]]]

\* step.input.append(param) / step.output.append(param) by the user of the
\* library: an in-place mutation of the list object the Step refers to.
AppendParam ==
    \E i \in 1..Len(steps), field \in {"input", "output"} :
        LET id == steps[i][field]
            p  == IF field = "input" THEN InputParam ELSE OutputParam
        IN  /\ Len(heap[id]) < MaxListLen
            /\ heap' = [heap EXCEPT ![id] = Append(@, p)]
            /\ lastOp' = [op |-> "append", step |-> i, field |-> field]
            /\ UNCHANGED <<steps, execVars, buildVars>>

StepNext ==
    \/ Step__init__
    \/ AppendParam

(***************************************************************************)
(* Specifications                                                          *)
(***************************************************************************)
\* No execution under way: a sync Step not yet executed
ExecIdle ==
    /\ async = FALSE /\ secretOk = TRUE /\ outcome = "returns" /\ V = None
    /\ pc = [caller |-> "execute", worker |-> "none"]
    /\ handling = [caller |-> NoExc, worker |-> NoExc]
    /\ actionState = "notcalled"
    /\ secretCalls = 0
    /\ statusCalls = <<>>
    /\ logCalls = <<>>
    /\ result = Pending
    /\ workerExc = NoExc

Init == ExecInit /\ BuildInit /\ StepInit

IdleInit == ExecIdle /\ BuildInit /\ StepInit

\* One execution of Step.execute
Spec == Init /\ [][ExecNext]_vars

\* The caller thread and the worker thread both keep running while they
\* have a step to take (a started thread is scheduled; an action that
\* hangs has no step to take).
FairSpec ==
    /\ Init /\ [][ExecNext]_vars
    /\ WF_vars(execute)
    /\ WF_vars(_execute_inner("worker"))

\* Calls of the builders
BuildSpec == IdleInit /\ [][BuildNext]_vars

\* Construction and mutation of Steps
StepSpec == IdleInit /\ [][StepNext]_vars

(***************************************************************************)
(* Properties of Step.execute                                              *)
(***************************************************************************)
Range(q) == {q[i] : i \in 1..Len(q)}

Exited == pc.caller = "done"

\* C1: for a non-async Step whose check_user_secret succeeded and whose
\* action raised, DONE is never passed to update_status, and when execute
\* exits it has raised StepExecutionException, the last status passed to
\* update_status is FAILED and flow_run.log has received a non-empty
\* traceback.
C1_SyncActionRaises ==
    (~async /\ actionState = "raised") =>
        /\ DONE \notin Range(statusCalls)
        /\ Exited =>
             /\ result = Raised(StepExecutionException)
             /\ statusCalls # <<>>
             /\ statusCalls[Len(statusCalls)] = FAILED
             /\ \E i \in 1..Len(logCalls) :
                    /\ Len(logCalls[i]) > 0
                    /\ logCalls[i] = format_exc(ActionError)

C1_Witness ==
    /\ ~async /\ secretOk /\ actionState = "raised" /\ Exited
    /\ result = Raised(StepExecutionException)

\* C2: for a non-async Step whose action returned V, FAILED is never passed
\* to update_status and flow_run.log is never called; DONE is passed only
\* after the action has returned; and when execute exits it has returned
\* exactly V and update_status was called with DONE.
C2_SyncActionReturns ==
    /\ (~async /\ DONE \in Range(statusCalls)) => actionState = "returned"
    /\ (~async /\ actionState = "returned") =>
          /\ FAILED \notin Range(statusCalls)
          /\ logCalls = <<>>
          /\ Exited => /\ result = Returned(V)
                       /\ statusCalls = <<DONE>>

C2_Witness ==
    /\ ~async /\ secretOk /\ actionState = "returned" /\ Exited
    /\ V # None /\ result = Returned(V)

\* C3: for an async Step whose check_user_secret succeeded, the caller
\* thread never runs the action or a handler itself, its return is enabled
\* as soon as the thread is started whatever the worker is doing, what it
\* returns is None, and execute never raises to the caller.
C3_AsyncReturnsWithoutWaiting ==
    (async /\ secretOk) =>
        /\ pc.caller \in {"execute", "dispatch", "async_started", "done"}
        /\ pc.caller = "async_started" => ENABLED execute_async_return
        /\ result.kind # "raise"
        /\ Exited => result = Returned(None)

\* the caller has returned while the action runs and never terminates
C3_Witness ==
    /\ async /\ secretOk /\ Exited /\ result = Returned(None)
    /\ pc.worker = "action" /\ outcome = "hangs"

\* C4: check_user_secret is called, and succeeds, before the action is
\* invoked or a worker thread started; if it raises, the action is never
\* invoked, no worker is started, DONE is never passed to update_status,
\* and when execute exits the log has received the traceback, FAILED has
\* been passed to update_status and execute has raised
\* StepExecutionException.
C4_SecretCheckedFirst ==
    /\ (actionState # "notcalled" \/ pc.worker # "none") =>
          (secretCalls >= 1 /\ secretOk)
    /\ ~secretOk =>
          /\ actionState = "notcalled"
          /\ pc.worker = "none"
          /\ DONE \notin Range(statusCalls)
          /\ Exited => /\ result = Raised(StepExecutionException)
                       /\ logCalls = <<format_exc(SecretError)>>
                       /\ statusCalls = <<FAILED>>

C4_Witness ==
    /\ async /\ ~secretOk /\ Exited /\ secretCalls = 1
    /\ result = Raised(StepExecutionException)

\* C5: for an async Step whose check_user_secret succeeds, under fair
\* scheduling: if the action returns, the worker eventually has called
\* update_status(DONE) and nothing else; if the action raises, the worker
\* eventually has logged the traceback, then called update_status(FAILED),
\* and ended with StepExecutionException.  That exception is never
\* delivered to the caller of execute.
C5_AsyncWorkerOutcome ==
    /\ [](async /\ secretOk => result.kind # "raise")
    /\ [](async /\ secretOk /\ FAILED \in Range(statusCalls) =>
             logCalls = <<format_exc(ActionError)>>)
    /\ (async /\ secretOk /\ outcome = "returns") ~>
          (/\ pc.worker = "dead" /\ workerExc = NoExc
           /\ statusCalls = <<DONE>> /\ logCalls = <<>>)
    /\ (async /\ secretOk /\ outcome = "raises") ~>
          (/\ pc.worker = "dead" /\ workerExc = StepExecutionException
           /\ logCalls = <<format_exc(ActionError)>>
           /\ statusCalls = <<FAILED>>
           /\ result = Returned(None))

C5_Witness ==
    /\ async /\ secretOk /\ outcome = "raises"
    /\ pc.worker = "dead" /\ workerExc = StepExecutionException
    /\ statusCalls = <<FAILED>> /\ Exited /\ result = Returned(None)

\* C9: over a whole execution, update_status is called at most once and
\* log is called at most once.
C9_AtMostOneStatusAndLog ==
    /\ Len(statusCalls) <= 1
    /\ Len(logCalls) <= 1

(***************************************************************************)
(* Properties of the builders                                              *)
(***************************************************************************)
FixedKeys == {"name", "label", "type"}

ValueMapParams == {"table", "filtered", "reference",
                   "fixed_choice_customer_field"}

Given(kw, k) == IF k \in DOMAIN kw THEN kw[k] ELSE None

\* C6: a value-map choice builder called with one or more extra keyword
\* options returns a descriptor with name, label, type, the valueMap of
\* four keys (None when not supplied) and every extra key with its value.
C6_ValueMapExtrasMerged ==
    (call.fn \in ValueMapBuilders /\ (DOMAIN call.kw) \ ValueMapParams # {}) =>
        /\ built.ok
        /\ built.value["name"] = call.args[1]
        /\ built.value["label"] = call.args[2]
        /\ built.value["type"] = ChoiceTag(call.fn)
        /\ built.value["valueMap"] =
              [table     |-> Given(call.kw, "table"),
               filter    |-> Given(call.kw, "filtered"),
               reference |-> Given(call.kw, "reference"),
               fixedChoiceCustomField |->
                   Given(call.kw, "fixed_choice_customer_field")]
        /\ \A k \in (DOMAIN call.kw) \ ValueMapParams :
               built.value[k] = call.kw[k]

\* C7 as stated: a simple builder returns a descriptor in which every extra
\* key has its supplied value, also an extra key named name, label or type,
\* and the other fixed keys have their fixed values.
C7_ExtraKeysOverride ==
    call.fn \in SimpleBuilders =>
        /\ built.ok
        /\ \A k \in DOMAIN call.kw : built.value[k] = call.kw[k]
        /\ "name" \notin DOMAIN call.kw => built.value["name"] = call.args[1]
        /\ "label" \notin DOMAIN call.kw => built.value["label"] = call.args[2]
        /\ "type" \notin DOMAIN call.kw => built.value["type"] = FixedTag(call.fn)

\* C7 as amended: a simple builder called with an extra keyword named name,
\* label or type raises TypeError and returns no descriptor; otherwise the
\* descriptor has exactly the keys name, label, type and the extra keys,
\* with the given name and label, the builder's fixed tag, and every extra
\* key with its supplied value.
C7_ExtraKeysMergedCollisionRaises ==
    call.fn \in SimpleBuilders =>
        IF (DOMAIN call.kw) \cap FixedKeys # {}
        THEN built = Raise(TypeError)
        ELSE /\ built.ok
             /\ DOMAIN built.value = FixedKeys \cup DOMAIN call.kw
             /\ built.value["name"] = call.args[1]
             /\ built.value["label"] = call.args[2]
             /\ built.value["type"] = FixedTag(call.fn)
             /\ \A k \in DOMAIN call.kw : built.value[k] = call.kw[k]

\* integer_input("n1", "L1", defaultValue=..., type=...) has raised TypeError
C7_Witness ==
    /\ call.fn = "integer_input"
    /\ DOMAIN call.kw = {"defaultValue", "type"}
    /\ built = Raise(TypeError)

\* C8: a field-list choice builder fails with IndexError, returning no
\* descriptor, when fieldtype is given and shorter than fieldelements;
\* otherwise fieldList.entries has one entry per element of fieldelements,
\* in order, entry i with field = fieldelements[i] and type = fieldtype[i],
\* or type = None for every entry when fieldtype is absent.
C8_FieldListEntries ==
    call.fn \in FieldListBuilders =>
        LET fe == call.fieldelements
            ft == call.fieldtype
        IN  IF ~ft.isNone /\ Len(ft.items) < Len(fe)
            THEN built = Raise(IndexError)
            ELSE /\ built.ok
                 /\ LET entries == built.value["fieldList"].entries
                    IN  /\ Len(entries) = Len(fe)
                        /\ \A i \in 1..Len(fe) :
                              /\ entries[i].field = fe[i]
                              /\ entries[i].type =
                                    IF ft.isNone THEN None ELSE ft.items[i]

C8_Witness ==
    /\ call.fn = "multiple_choice_with_field_list_input"
    /\ Len(call.fieldelements) = 2
    /\ ~call.fieldtype.isNone
    /\ Len(call.fieldtype.items) = 1
    /\ built = Raise(IndexError)

(***************************************************************************)
(* Properties of Step objects                                              *)
(***************************************************************************)
\* C10: a mutation of one Step's input or output list leaves what to_dict
\* reports for every other Step unchanged.
C10_StepsHaveOwnLists ==
    [][lastOp'.op = "append" =>
          \A j \in 1..Len(steps) :
              j # lastOp'.step => to_dict(j, RouteId)' = to_dict(j, RouteId)]_vars

=============================================================================
